---- MODULE Spec2Model ----
(***************************************************************************)
(* SentenceTransformersDocumentEmbedder                                    *)
(* (haystack/components/embedders/sentence_transformers_document_embedder) *)
(*                                                                         *)
(* The component is modelled as a state machine: its configuration         *)
(* attributes (self), the lazily created embedding_backend attribute, the  *)
(* caller-owned Document objects, and the outcome of the last call.        *)
(*                                                                         *)
(* Python strings are sequences of one-character strings, so that join,    *)
(* prefix and suffix are real concatenations.  Python values that can be   *)
(* None or of several types are tagged records [t, s, n].                  *)
(***************************************************************************)
EXTENDS Integers, Sequences, FiniteSets, TLC

VARIABLES
    self,               \* the component's configuration attributes (lines 91-102)
    embedding_backend,  \* the attribute set by warm_up, NoAttr while it is missing
    factoryCalls,       \* number of calls of the backend factory so far
    docs,               \* the Document objects: id -> [content, meta, embedding]
    last,               \* what the last call on the component was and how it ended
    mutations,          \* number of in-place attribute mutations so far
    pc,                 \* per thread: position inside a concurrent warm_up call
    local,              \* per thread: the backend its factory call returned
    lock,               \* the caller's external lock around warm_up (0 = free)
    serialized,         \* whether the callers serialize warm_up with that lock
    data,               \* the dictionary to_dict produced
    restored            \* the component from_dict rebuilt

vars == <<self, embedding_backend, factoryCalls, docs, last, mutations,
          pc, local, lock, serialized, data, restored>>

-----------------------------------------------------------------------------
(* Bounds of the model *)

MaxLen == 2         \* longest documents list passed to run
MaxMutations == 1   \* in-place mutations of configuration attributes
NThreads == 2       \* threads calling warm_up concurrently
MaxFields == 2      \* longest meta_fields_to_embed list composed
NVectors == 3       \* distinct vectors the backend returns

-----------------------------------------------------------------------------
(* Python values *)

PyStrV(s) == [t |-> "str", s |-> s, n |-> 0]
PyInt(n) == [t |-> "int", s |-> <<>>, n |-> n]
PyBool(b) == [t |-> "bool", s |-> <<>>, n |-> IF b THEN 1 ELSE 0]
None == [t |-> "NoneType", s |-> <<>>, n |-> 0]
\* a list, given by the repr of each of its items: <<>> is [], <<"0">> is [0]
PyList(items) == [t |-> "list", s |-> items, n |-> 0]
\* an embedding vector, identified by a number
Vec(i) == [t |-> "vector", s |-> <<>>, n |-> i]

\* Python's bool(v): the truth value tested by `and doc.meta[key]`, `or ""`,
\* `or []` and `if self.token`; an object without __bool__ or __len__ is true
Truthy(v) ==
    CASE v.t = "str" -> v.s # <<>>
      [] v.t = "int" -> v.n # 0
      [] v.t = "bool" -> v.n = 1
      [] v.t = "list" -> v.s # <<>>
      [] v.t = "NoneType" -> FALSE
      [] OTHER -> TRUE

DigitChar(d) == <<"0", "1", "2", "3", "4", "5", "6", "7", "8", "9">>[d + 1]

RECURSIVE Digits(_)
Digits(n) == IF n < 10 THEN <<DigitChar(n)>> ELSE Digits(n \div 10) \o <<DigitChar(n % 10)>>

\* Python's sep.join(parts) for a list of strings
RECURSIVE join(_, _)
join(sep, parts) ==
    IF parts = <<>> THEN <<>>
    ELSE IF Len(parts) = 1 THEN parts[1]
    ELSE parts[1] \o sep \o join(sep, Tail(parts))

\* Python's str(v)
PyStr(v) ==
    CASE v.t = "str" -> v.s
      [] v.t = "int" -> IF v.n < 0 THEN <<"-">> \o Digits(-v.n) ELSE Digits(v.n)
      [] v.t = "bool" -> IF v.n = 1 THEN <<"T", "r", "u", "e">> ELSE <<"F", "a", "l", "s", "e">>
      [] v.t = "list" ->
            <<"[">> \o join(<<",", " ">>, [i \in 1..Len(v.s) |-> <<v.s[i]>>]) \o <<"]">>
      [] OTHER -> <<"N", "o", "n", "e">>

-----------------------------------------------------------------------------
(* Configuration: __init__ *)

DefaultModel == "sentence-transformers/all-mpnet-base-v2"
DefaultBatchSize == 32
\* Secret.from_env_var(["HF_API_TOKEN", "HF_TOKEN"], strict=False): a recipe, not a value
EnvVarSecret(names, strict) == [t |-> "EnvVarSecret", env_vars |-> names, strict |-> strict]
DefaultToken == EnvVarSecret(<<"HF_API_TOKEN", "HF_TOKEN">>, FALSE)
\* a resolved ComponentDevice
Device(d) == [t |-> "ComponentDevice", device |-> d]
\* ComponentDevice.resolve_device: None becomes the default device, a device stays
resolve_device(device) == IF device = None THEN Device("cpu") ELSE device

\* The arguments __init__ takes when every parameter is left at its default
DefaultArgs ==
    [model |-> DefaultModel, device |-> None, token |-> DefaultToken,
     prefix |-> <<>>, suffix |-> <<>>, batch_size |-> DefaultBatchSize,
     progress_bar |-> TRUE, normalize_embeddings |-> FALSE,
     meta_fields_to_embed |-> None, embedding_separator |-> <<"\n">>,
     trust_remote_code |-> FALSE, truncate_dim |-> None]

\* __init__: stores the arguments, resolving the device and replacing a falsy
\* meta_fields_to_embed (None or []) by []
__init__(args) ==
    [model |-> args.model,
     device |-> resolve_device(args.device),
     token |-> args.token,
     prefix |-> args.prefix,
     suffix |-> args.suffix,
     batch_size |-> args.batch_size,
     progress_bar |-> args.progress_bar,
     normalize_embeddings |-> args.normalize_embeddings,
     meta_fields_to_embed |->
        IF Truthy(args.meta_fields_to_embed) THEN args.meta_fields_to_embed ELSE PyList(<<>>),
     embedding_separator |-> args.embedding_separator,
     trust_remote_code |-> args.trust_remote_code,
     truncate_dim |-> args.truncate_dim]

-----------------------------------------------------------------------------
(* Documents and the arguments of run *)

\* The Document objects the caller owns, by identity
Docs == {1, 2}
\* A list element that is a plain str instead of a Document
PlainStr == 0
\* The metadata keys used
Keys == {"lang", "rating"}

ListOf(items) == [isList |-> TRUE, items |-> items]
\* An argument that is not a list (a tuple, a str, a single Document)
NotAList == [isList |-> FALSE, items |-> <<>>]
\* What a call that raised returned
NoResult == [isList |-> FALSE, items |-> <<>>]

SeqsUpTo(S, n) == UNION {[1..k -> S] : k \in 0..n}

\* Every argument run is called with: lists may repeat an object and may hold strs
Arguments == {NotAList} \cup {ListOf(s) : s \in SeqsUpTo(Docs \cup {PlainStr}, MaxLen)}

IsDocument(x) == x \in Docs

\* The documents as the caller built them: the first has an empty embedding and a
\* falsy metadata value, the second has no content and already holds an embedding
InitialDocs ==
    [d \in Docs |->
        IF d = 1
        THEN [content |-> PyStrV(<<"a">>),
              meta |-> [lang |-> PyStrV(<<"e", "n">>), rating |-> PyInt(0)],
              embedding |-> None]
        ELSE [content |-> None,
              meta |-> [rating |-> PyInt(5)],
              embedding |-> Vec(3)]]

-----------------------------------------------------------------------------
(* run: text composition, lines 184-192 *)

\* A slip: the value's truth is not tested, only the key's presence
meta_values_to_embed_present(doc, me) ==
    LET Keep(key) == key \in DOMAIN doc.meta
        kept == SelectSeq(me.meta_fields_to_embed.s, Keep)
    IN  [i \in 1..Len(kept) |-> PyStr(doc.meta[kept[i]])]

\* [str(doc.meta[key]) for key in self.meta_fields_to_embed
\*      if key in doc.meta and doc.meta[key]]
meta_values_to_embed(doc, me) ==
    LET Keep(key) == key \in DOMAIN doc.meta /\ Truthy(doc.meta[key])
        kept == SelectSeq(me.meta_fields_to_embed.s, Keep)
    IN  [i \in 1..Len(kept) |-> PyStr(doc.meta[kept[i]])]

\* doc.content or ""
content_or_empty(doc) == IF Truthy(doc.content) THEN doc.content.s ELSE <<>>

\* self.prefix + self.embedding_separator.join(meta_values_to_embed + [doc.content or ""])
\*     + self.suffix
text_to_embed(doc, me) ==
    me.prefix
    \o join(me.embedding_separator, meta_values_to_embed(doc, me) \o <<content_or_empty(doc)>>)
    \o me.suffix

\* texts_to_embed, one text per list element, in list order
texts_to_embed(ds, items, me) == [i \in 1..Len(items) |-> text_to_embed(ds[items[i]], me)]

-----------------------------------------------------------------------------
(* The embedding backend *)

NoAttr == [t |-> "unset"]

\* ComponentDevice.to_torch_str
to_torch_str(device) == device.device

\* _SentenceTransformersEmbeddingBackendFactory.get_embedding_backend: the backend
\* built from (or cached under) the five values it is given
get_embedding_backend(model, device, auth_token, trust_remote_code, truncate_dim) ==
    [t |-> "backend", model |-> model, device |-> device, auth_token |-> auth_token,
     trust_remote_code |-> trust_remote_code, truncate_dim |-> truncate_dim]

\* The backend the component's current attributes would build
build_backend(me) ==
    get_embedding_backend(me.model, to_torch_str(me.device), me.token,
                          me.trust_remote_code, me.truncate_dim)

\* What embed does with n texts: it raises, or it returns k vectors, where k may
\* differ from n when the backend breaks its length contract.  The vectors of one
\* reply are pairwise different at neighbouring positions.
Replies(n) ==
    {[fails |-> TRUE, vectors |-> <<>>]} \cup
    {[fails |-> FALSE, vectors |-> [i \in 1..k |-> Vec(((i - 1 + off) % NVectors) + 1)]] :
        k \in 0..(n + 1), off \in 0..(NVectors - 1)}

-----------------------------------------------------------------------------
(* run, lines 174-204 *)

\* line 174, negated: a list whose first element, if any, is a Document
input_shape_ok(documents) ==
    documents.isList /\ (documents.items = <<>> \/ IsDocument(documents.items[1]))

\* A slip: the batch size is the constructor's default, not the attribute
embed_call_default_batch(me, texts) ==
    [texts |-> texts, batch_size |-> DefaultBatchSize,
     show_progress_bar |-> me.progress_bar,
     normalize_embeddings |-> me.normalize_embeddings]

\* the keyword arguments of self.embedding_backend.embed, lines 194-199
embed_call(me, texts) ==
    [texts |-> texts, batch_size |-> me.batch_size,
     show_progress_bar |-> me.progress_bar,
     normalize_embeddings |-> me.normalize_embeddings]

\* A slip: every document gets the first vector
RECURSIVE zip_assign_first(_, _, _)
zip_assign_first(ds, items, embeddings) ==
    IF items = <<>> \/ embeddings = <<>> THEN ds
    ELSE zip_assign_first([ds EXCEPT ![Head(items)].embedding = Head(embeddings)],
                          Tail(items), embeddings)

\* A slip: the documents the backend returned no vector for get a null embedding
RECURSIVE zip_assign_padded(_, _, _)
zip_assign_padded(ds, items, embeddings) ==
    IF items = <<>> THEN ds
    ELSE IF embeddings = <<>>
    THEN zip_assign_padded([ds EXCEPT ![Head(items)].embedding = None], Tail(items), <<>>)
    ELSE zip_assign_padded([ds EXCEPT ![Head(items)].embedding = Head(embeddings)],
                           Tail(items), Tail(embeddings))

\* for doc, emb in zip(documents, embeddings): doc.embedding = emb
RECURSIVE zip_assign(_, _, _)
zip_assign(ds, items, embeddings) ==
    IF items = <<>> \/ embeddings = <<>> THEN ds
    ELSE zip_assign([ds EXCEPT ![Head(items)].embedding = Head(embeddings)],
                    Tail(items), Tail(embeddings))

Raised(error, ds) ==
    [outcome |-> error, embeds |-> <<>>, vectors |-> <<>>, docs |-> ds, result |-> NoResult]

\* A slip: readiness is checked before the shape of the input
precheck_ready_first(backend, documents) ==
    IF backend = NoAttr THEN "RuntimeError"
    ELSE IF ~input_shape_ok(documents) THEN "TypeError"
    ELSE "pass"

\* The checks of lines 174-180: the error raised, or "pass"
precheck(backend, documents) ==
    IF ~input_shape_ok(documents) THEN "TypeError"
    ELSE IF backend = NoAttr THEN "RuntimeError"
    ELSE "pass"

\* A slip: the backend's failure is caught to clear the embeddings, then re-raised
embed_documents_clearing(me, ds, documents, reply) ==
    IF \E i \in 1..Len(documents.items) : ~IsDocument(documents.items[i])
    THEN Raised("AttributeError", ds)
    ELSE LET call == [args |-> embed_call(me, texts_to_embed(ds, documents.items, me)),
                      raised |-> reply.fails]
             cleared == [d \in Docs |->
                            IF \E i \in 1..Len(documents.items) : documents.items[i] = d
                            THEN [ds[d] EXCEPT !.embedding = None] ELSE ds[d]]
         IN  IF reply.fails
             THEN [outcome |-> "BackendFailure", embeds |-> <<call>>, vectors |-> <<>>,
                   docs |-> cleared, result |-> NoResult]
             ELSE [outcome |-> "ok", embeds |-> <<call>>, vectors |-> reply.vectors,
                   docs |-> zip_assign(ds, documents.items, reply.vectors),
                   result |-> documents]

\* The body of run after its checks.  A str among the elements has no content
\* attribute: building its text raises AttributeError before embed is called.
\* Each embed call is logged with its keyword arguments and whether it raised.
embed_documents(me, ds, documents, reply) ==
    IF \E i \in 1..Len(documents.items) : ~IsDocument(documents.items[i])
    THEN Raised("AttributeError", ds)
    ELSE LET call == [args |-> embed_call(me, texts_to_embed(ds, documents.items, me)),
                      raised |-> reply.fails]
         IN  IF reply.fails
             THEN [outcome |-> "BackendFailure", embeds |-> <<call>>, vectors |-> <<>>,
                   docs |-> ds, result |-> NoResult]
             ELSE [outcome |-> "ok", embeds |-> <<call>>, vectors |-> reply.vectors,
                   docs |-> zip_assign(ds, documents.items, reply.vectors),
                   result |-> documents]

run(me, backend, ds, documents, reply) ==
    LET check == precheck(backend, documents)
    IN  IF check # "pass" THEN Raised(check, ds)
        ELSE embed_documents(me, ds, documents, reply)

-----------------------------------------------------------------------------
(* The sequential component: every call runs to its end before the next *)

NoCall ==
    [op |-> "none", outcome |-> "none", documents |-> NotAList, embeds |-> <<>>,
     vectors |-> <<>>, result |-> NoResult]

Threads == 1..NThreads

Init ==
    /\ self = __init__(DefaultArgs)
    /\ embedding_backend = NoAttr
    /\ factoryCalls = 0
    /\ docs = InitialDocs
    /\ last = NoCall
    /\ mutations = 0
    /\ pc = [t \in Threads |-> "idle"]
    /\ local = [t \in Threads |-> NoAttr]
    /\ lock = 0
    /\ serialized = FALSE
    /\ data = None
    /\ restored = None

\* A slip: warm_up builds the backend whenever it is called
WarmUpAlways ==
    /\ embedding_backend' = build_backend(self)
    /\ factoryCalls' = factoryCalls + 1
    /\ last' = [NoCall EXCEPT !.op = "warm_up", !.outcome = "ok"]
    /\ UNCHANGED <<self, docs, mutations, pc, local, lock, serialized, data, restored>>

\* warm_up, lines 149-160
WarmUp ==
    /\ IF embedding_backend = NoAttr
       THEN /\ embedding_backend' = build_backend(self)
            /\ factoryCalls' = factoryCalls + 1
       ELSE UNCHANGED <<embedding_backend, factoryCalls>>
    /\ last' = [NoCall EXCEPT !.op = "warm_up", !.outcome = "ok"]
    /\ UNCHANGED <<self, docs, mutations, pc, local, lock, serialized, data, restored>>

\* run, lines 163-204, with the backend's reply to the embed call it may make
Run(documents, reply) ==
    LET r == run(self, embedding_backend, docs, documents, reply)
    IN  /\ docs' = r.docs
        /\ last' = [op |-> "run", outcome |-> r.outcome, documents |-> documents,
                    embeds |-> r.embeds, vectors |-> r.vectors, result |-> r.result]
        /\ UNCHANGED <<self, embedding_backend, factoryCalls, mutations,
                       pc, local, lock, serialized, data, restored>>

\* The attributes a caller can assign in place, each with the values it may take
FieldValues(f) ==
    CASE f = "model" -> {DefaultModel, "intfloat/e5-base"}
      [] f = "device" -> {Device("cpu"), Device("cuda:0")}
      [] f = "token" -> {DefaultToken, None}
      [] f = "prefix" -> {<<>>, <<"Q", ":">>}
      [] f = "suffix" -> {<<>>, <<"/", "Q">>}
      [] f = "batch_size" -> {DefaultBatchSize, 8}
      [] f = "progress_bar" -> {TRUE, FALSE}
      [] f = "normalize_embeddings" -> {TRUE, FALSE}
      [] f = "meta_fields_to_embed" -> {PyList(<<>>), PyList(<<"lang", "rating">>)}
      [] f = "embedding_separator" -> {<<"\n">>, <<"|">>}
      [] f = "trust_remote_code" -> {TRUE, FALSE}
      [] f = "truncate_dim" -> {None, PyInt(256)}

Fields == DOMAIN __init__(DefaultArgs)

\* The fields warm_up hands to the backend factory
BuildFields == {"model", "device", "token", "trust_remote_code", "truncate_dim"}

\* self.<field> = value, assigned by the caller between calls
Mutate(f, v) ==
    /\ mutations < MaxMutations
    /\ v # self[f]
    /\ self' = [self EXCEPT ![f] = v]
    /\ mutations' = mutations + 1
    /\ last' = [NoCall EXCEPT !.op = "mutate"]
    /\ UNCHANGED <<embedding_backend, factoryCalls, docs, pc, local, lock,
                   serialized, data, restored>>

\* Whether run, called now with these documents, gets as far as calling embed
CallsEmbed(documents) ==
    /\ precheck(embedding_backend, documents) = "pass"
    /\ \A i \in 1..Len(documents.items) : IsDocument(documents.items[i])

\* The replies the backend can give to the call run makes, if it makes one
RepliesTo(documents) ==
    IF CallsEmbed(documents) THEN Replies(Len(documents.items)) ELSE {[fails |-> TRUE, vectors |-> <<>>]}

\* The component used with its configuration left as constructed
Next ==
    \/ WarmUp
    \/ \E documents \in Arguments : \E reply \in RepliesTo(documents) : Run(documents, reply)

Spec == Init /\ [][Next]_vars

\* A backend that keeps its length contract, or fails
ContractReplies(n) ==
    {reply \in Replies(n) : reply.fails \/ Len(reply.vectors) = n}

\* A few arguments of each shape
SampleArguments ==
    {NotAList, ListOf(<<>>), ListOf(<<1>>), ListOf(<<2, 1>>), ListOf(<<PlainStr>>)}

\* The component whose attributes the caller also assigns in place between calls
NextConfig ==
    \/ WarmUp
    \/ \E documents \in SampleArguments :
          \E reply \in RepliesTo(documents) \cap ContractReplies(Len(documents.items)) :
              Run(documents, reply)
    \/ \E f \in Fields : \E v \in FieldValues(f) : Mutate(f, v)

SpecConfig == Init /\ [][NextConfig]_vars

-----------------------------------------------------------------------------
(* Text composition over every document and configuration *)

Absent == [t |-> "absent", s |-> <<>>, n |-> 0]
LangValues == {Absent, PyStrV(<<"e", "n">>), PyStrV(<<>>), None, PyBool(FALSE), PyList(<<>>)}
RatingValues == {Absent, PyInt(0), PyInt(12), PyBool(TRUE), PyList(<<"0">>)}
ContentValues == {None, PyStrV(<<>>), PyStrV(<<"a">>)}

\* the meta mapping holding the given values, without the absent keys
MetaOf(lang, rating) ==
    LET value(k) == IF k = "lang" THEN lang ELSE rating
    IN  [k \in {k \in Keys : value(k) # Absent} |-> value(k)]

FieldLists ==
    {None} \cup {PyList(s) : s \in SeqsUpTo(Keys \cup {"author"}, MaxFields)}

\* the reply of a backend that returns one vector per text
EchoReply(n) == [fails |-> FALSE, vectors |-> [i \in 1..n |-> Vec(((i - 1) % NVectors) + 1)]]

InitCompose ==
    /\ \E prefix \in FieldValues("prefix"), suffix \in FieldValues("suffix"),
          separator \in FieldValues("embedding_separator"), fields \in FieldLists :
          self = __init__([DefaultArgs EXCEPT !.prefix = prefix, !.suffix = suffix,
                                              !.embedding_separator = separator,
                                              !.meta_fields_to_embed = fields])
    /\ \E content \in ContentValues, lang \in LangValues, rating \in RatingValues :
          docs = [InitialDocs EXCEPT ![1] = [content |-> content,
                                             meta |-> MetaOf(lang, rating),
                                             embedding |-> None]]
    /\ embedding_backend = NoAttr
    /\ factoryCalls = 0
    /\ last = NoCall
    /\ mutations = 0
    /\ pc = [t \in Threads |-> "idle"]
    /\ local = [t \in Threads |-> NoAttr]
    /\ lock = 0
    /\ serialized = FALSE
    /\ data = None
    /\ restored = None

NextCompose ==
    \/ WarmUp
    \/ \E documents \in {ListOf(<<1>>), ListOf(<<2, 1>>)} :
          Run(documents, EchoReply(Len(documents.items)))

SpecCompose == InitCompose /\ [][NextCompose]_vars

-----------------------------------------------------------------------------
(* Serialization: to_dict and from_dict *)

ComponentType ==
    "haystack.components.embedders.sentence_transformers_document_embedder.SentenceTransformersDocumentEmbedder"

\* ComponentDevice.to_dict and ComponentDevice.from_dict
device_to_dict(device) == [type |-> "single", device |-> device.device]
device_from_dict(d) == Device(d.device)

\* Secret.to_dict and Secret.from_dict: the recipe of an environment-variable secret
secret_to_dict(secret) ==
    [type |-> "env_var", env_vars |-> secret.env_vars, strict |-> secret.strict]
secret_from_dict(d) == EnvVarSecret(d.env_vars, d.strict)

\* default_to_dict(self, **init_parameters)
default_to_dict(init_parameters) ==
    [type |-> ComponentType, init_parameters |-> init_parameters]

\* deserialize_secrets_inplace(init_params, keys=["token"]): a key that is
\* missing or holds None is left alone
deserialize_secrets_inplace(init_params) ==
    IF "token" \in DOMAIN init_params /\ init_params.token # None
    THEN [init_params EXCEPT !.token = secret_from_dict(init_params.token)]
    ELSE init_params

\* default_from_dict(cls, data): cls(**init_parameters), a parameter that is not
\* given taking its default
default_from_dict(d) ==
    __init__([k \in DOMAIN DefaultArgs |->
                IF k \in DOMAIN d.init_parameters THEN d.init_parameters[k] ELSE DefaultArgs[k]])

\* A slip: a null token is left out of the dictionary
to_dict_without_null_token(me) ==
    LET parameters ==
            [model |-> me.model,
             device |-> device_to_dict(me.device),
             token |-> IF Truthy(me.token) THEN secret_to_dict(me.token) ELSE None,
             prefix |-> me.prefix,
             suffix |-> me.suffix,
             batch_size |-> me.batch_size,
             progress_bar |-> me.progress_bar,
             normalize_embeddings |-> me.normalize_embeddings,
             meta_fields_to_embed |-> me.meta_fields_to_embed,
             embedding_separator |-> me.embedding_separator,
             trust_remote_code |-> me.trust_remote_code,
             truncate_dim |-> me.truncate_dim]
    IN  default_to_dict(
            IF Truthy(me.token) THEN parameters
            ELSE [k \in DOMAIN parameters \ {"token"} |-> parameters[k]])

\* to_dict, lines 110-131
to_dict(me) ==
    default_to_dict(
        [model |-> me.model,
         device |-> device_to_dict(me.device),
         token |-> IF Truthy(me.token) THEN secret_to_dict(me.token) ELSE None,
         prefix |-> me.prefix,
         suffix |-> me.suffix,
         batch_size |-> me.batch_size,
         progress_bar |-> me.progress_bar,
         normalize_embeddings |-> me.normalize_embeddings,
         meta_fields_to_embed |-> me.meta_fields_to_embed,
         embedding_separator |-> me.embedding_separator,
         trust_remote_code |-> me.trust_remote_code,
         truncate_dim |-> me.truncate_dim])

\* from_dict, lines 133-147
from_dict(d) ==
    LET init_params == d.init_parameters
        with_device ==
            IF "device" \in DOMAIN init_params /\ init_params.device # None
            THEN [init_params EXCEPT !.device = device_from_dict(init_params.device)]
            ELSE init_params
    IN  default_from_dict([d EXCEPT !.init_parameters = deserialize_secrets_inplace(with_device)])

\* The arguments a component is constructed with
ConstructorArgs ==
    {[model |-> model, device |-> device, token |-> token, prefix |-> prefix,
      suffix |-> suffix, batch_size |-> batch_size, progress_bar |-> progress_bar,
      normalize_embeddings |-> normalize_embeddings,
      meta_fields_to_embed |-> meta_fields_to_embed,
      embedding_separator |-> embedding_separator,
      trust_remote_code |-> trust_remote_code, truncate_dim |-> truncate_dim] :
        model \in FieldValues("model"),
        device \in {None} \cup FieldValues("device"),
        token \in FieldValues("token") \cup {EnvVarSecret(<<"MY_TOKEN">>, TRUE)},
        prefix \in FieldValues("prefix"),
        suffix \in FieldValues("suffix"),
        batch_size \in FieldValues("batch_size"),
        progress_bar \in BOOLEAN,
        normalize_embeddings \in BOOLEAN,
        meta_fields_to_embed \in {None} \cup FieldValues("meta_fields_to_embed"),
        embedding_separator \in FieldValues("embedding_separator"),
        trust_remote_code \in BOOLEAN,
        truncate_dim \in FieldValues("truncate_dim")}

InitSerialize ==
    /\ \E args \in ConstructorArgs : self = __init__(args)
    /\ embedding_backend = NoAttr
    /\ factoryCalls = 0
    /\ docs = InitialDocs
    /\ last = NoCall
    /\ mutations = 0
    /\ pc = [t \in Threads |-> "idle"]
    /\ local = [t \in Threads |-> NoAttr]
    /\ lock = 0
    /\ serialized = FALSE
    /\ data = None
    /\ restored = None

\* data = component.to_dict()
ToDict ==
    /\ data' = to_dict(self)
    /\ UNCHANGED <<self, embedding_backend, factoryCalls, docs, last, mutations,
                   pc, local, lock, serialized, restored>>

\* restored = SentenceTransformersDocumentEmbedder.from_dict(data)
FromDict ==
    /\ data # None
    /\ restored' = from_dict(data)
    /\ UNCHANGED <<self, embedding_backend, factoryCalls, docs, last, mutations,
                   pc, local, lock, serialized, data>>

NextSerialize == ToDict \/ FromDict

SpecSerialize == InitSerialize /\ [][NextSerialize]_vars

-----------------------------------------------------------------------------
(* warm_up called by several threads, statement by statement *)

InitThreads ==
    /\ self = __init__(DefaultArgs)
    /\ embedding_backend = NoAttr
    /\ factoryCalls = 0
    /\ docs = InitialDocs
    /\ last = NoCall
    /\ mutations = 0
    /\ pc = [t \in Threads |-> "idle"]
    /\ local = [t \in Threads |-> NoAttr]
    /\ lock = 0
    /\ serialized \in BOOLEAN
    /\ data = None
    /\ restored = None

\* The thread calls warm_up, first taking the callers' lock if they use one
Enter(t) ==
    /\ pc[t] = "idle"
    /\ serialized => lock = 0
    /\ lock' = IF serialized THEN t ELSE lock
    /\ pc' = [pc EXCEPT ![t] = "check"]
    /\ UNCHANGED <<self, embedding_backend, factoryCalls, docs, last, mutations,
                   local, serialized, data, restored>>

\* A slip: the backend is built without looking for the attribute
CheckNothing(t) ==
    /\ pc[t] = "check"
    /\ pc' = [pc EXCEPT ![t] = "build"]
    /\ UNCHANGED <<self, embedding_backend, factoryCalls, docs, last, mutations,
                   local, lock, serialized, data, restored>>

\* line 153: if not hasattr(self, "embedding_backend")
Check(t) ==
    /\ pc[t] = "check"
    /\ pc' = [pc EXCEPT ![t] = IF embedding_backend = NoAttr THEN "build" ELSE "return"]
    /\ UNCHANGED <<self, embedding_backend, factoryCalls, docs, last, mutations,
                   local, lock, serialized, data, restored>>

\* lines 154-160, right-hand side: the factory call, which reads the attributes
Build(t) ==
    /\ pc[t] = "build"
    /\ local' = [local EXCEPT ![t] = build_backend(self)]
    /\ factoryCalls' = factoryCalls + 1
    /\ pc' = [pc EXCEPT ![t] = "store"]
    /\ UNCHANGED <<self, embedding_backend, docs, last, mutations, lock, serialized,
                   data, restored>>

\* line 154, left-hand side: self.embedding_backend = <the backend returned>
Store(t) ==
    /\ pc[t] = "store"
    /\ embedding_backend' = local[t]
    /\ pc' = [pc EXCEPT ![t] = "return"]
    /\ UNCHANGED <<self, factoryCalls, docs, last, mutations, local, lock, serialized,
                   data, restored>>

\* warm_up returns; the thread releases the lock it took
Return(t) ==
    /\ pc[t] = "return"
    /\ pc' = [pc EXCEPT ![t] = "done"]
    /\ lock' = IF lock = t THEN 0 ELSE lock
    /\ UNCHANGED <<self, embedding_backend, factoryCalls, docs, last, mutations,
                   local, serialized, data, restored>>

NextThreads ==
    \/ \E t \in Threads : Enter(t)
    \/ \E t \in Threads : Check(t)
    \/ \E t \in Threads : Build(t)
    \/ \E t \in Threads : Store(t)
    \/ \E t \in Threads : Return(t)
    \/ \E f \in BuildFields : \E v \in FieldValues(f) : Mutate(f, v)

SpecThreads == InitThreads /\ [][NextThreads]_vars

-----------------------------------------------------------------------------
(* Properties of run and warm_up *)

LastItems == last.documents.items
LastIsRun == last.op = "run"
AllDocuments(documents) ==
    documents.isList /\ \A i \in 1..Len(documents.items) : IsDocument(documents.items[i])
Ready == embedding_backend # NoAttr
\* the last position at which the object at position i occurs in the list
IsLastOccurrence(items, i) == \A j \in (i + 1)..Len(items) : items[j] # items[i]

\* C1: a run on a Ready component with a list of N Documents, whose embed call
\* does not fail, returns; the value returned is the list passed, same objects
\* in the same order; and when embed returned N vectors, documents[i].embedding
\* is vectors[i] at every position i whose object does not occur again later in
\* the list (at every position when the N objects are distinct), so that every
\* returned document has a non-null embedding.
C1_RunAttachesVectorsInOrder ==
    (LastIsRun /\ Ready /\ AllDocuments(last.documents) /\ last.outcome # "BackendFailure")
    => /\ last.outcome = "ok"
       /\ last.result = last.documents
       /\ Len(last.vectors) = Len(LastItems)
          => /\ \A i \in 1..Len(LastItems) :
                    IsLastOccurrence(LastItems, i)
                    => docs[LastItems[i]].embedding = last.vectors[i]
             /\ \A i \in 1..Len(LastItems) : docs[LastItems[i]].embedding # None

\* C1 witness: two distinct documents were embedded with two different vectors
C1_Witness ==
    /\ LastIsRun /\ last.outcome = "ok"
    /\ LastItems = <<2, 1>>
    /\ Len(last.vectors) = 2
    /\ docs[2].embedding = last.vectors[1]
    /\ docs[1].embedding = last.vectors[2]
    /\ docs[1].embedding # docs[2].embedding

\* C2 as stated: a run on a component that was never warmed up ends with the
\* not-ready error (RuntimeError), whatever the argument.
C2_NotReadyForAnyInput ==
    (LastIsRun /\ ~Ready) => last.outcome = "RuntimeError"

\* C2 amended: a run on a component that was never warmed up calls embed zero
\* times and ends with the not-ready error exactly when the argument is a list
\* that is empty or starts with a Document; any other argument ends with the
\* input-shape error (TypeError), which is checked first.
C2_NotReadyAfterShapeCheck ==
    (LastIsRun /\ ~Ready)
    => /\ last.embeds = <<>>
       /\ IF last.documents.isList /\ (LastItems = <<>> \/ LastItems[1] \in Docs)
          THEN last.outcome = "RuntimeError"
          ELSE last.outcome = "TypeError"

\* C2 witness: a list of two Documents met the not-ready error
C2_Witness ==
    LastIsRun /\ ~Ready /\ Len(LastItems) = 2 /\ last.outcome = "RuntimeError"

\* C3: a run on a Ready component with a non-list, or with a list holding a
\* non-Document at any position, ends with the input-shape error (TypeError)
\* and makes no embed call.
C3_NonDocumentAnywhereIsTypeError ==
    (LastIsRun /\ Ready /\ ~AllDocuments(last.documents))
    => last.outcome = "TypeError" /\ last.embeds = <<>>

\* C5: when the embed call of a run fails, the run ends with that failure, embed
\* was called once, no document changed and the component holds the same backend.
C5_BackendFailureChangesNothing ==
    [][(last'.op = "run" /\ last'.embeds # <<>> /\ last'.embeds[1].raised)
       => /\ last'.outcome = "BackendFailure"
          /\ Len(last'.embeds) = 1
          /\ docs' = docs
          /\ embedding_backend' = embedding_backend
          /\ embedding_backend' # NoAttr]_vars

\* C5 witness: embed failed on a list of two documents, one holding an embedding
C5_Witness ==
    /\ LastIsRun /\ last.outcome = "BackendFailure"
    /\ LastItems = <<1, 2>>
    /\ docs[2].embedding # None

\* the last of the first k positions of items that holds object d, 0 if none
LastPositionWithin(items, k, d) ==
    LET ps == {i \in 1..Len(items) : i <= k /\ items[i] = d}
    IN  IF ps = {} THEN 0 ELSE CHOOSE i \in ps : \A j \in ps : j <= i

\* C10: when embed returns k vectors for N documents, whatever k is, run raises
\* nothing and returns the list passed; a document among the first min(k, N)
\* positions holds the vector of its (last such) position, every other document
\* keeps the embedding it had, and vectors beyond position N are ignored.
C10_ZipTruncates ==
    [][(last'.op = "run" /\ last'.embeds # <<>> /\ ~last'.embeds[1].raised)
       => /\ last'.outcome = "ok"
          /\ last'.result = last'.documents
          /\ \A d \in Docs :
                LET p == LastPositionWithin(last'.documents.items, Len(last'.vectors), d)
                IN  /\ docs'[d].embedding =
                          IF p = 0 THEN docs[d].embedding ELSE last'.vectors[p]
                    /\ docs'[d].content = docs[d].content
                    /\ docs'[d].meta = docs[d].meta]_vars

\* C10 witness: one vector came back for two documents; the second kept its embedding
C10_Witness ==
    /\ LastIsRun /\ last.outcome = "ok"
    /\ LastItems = <<1, 2>>
    /\ Len(last.vectors) = 1
    /\ docs[1].embedding = last.vectors[1]
    /\ docs[2].embedding = Vec(3)
    /\ docs[2].embedding # last.vectors[1]

\* C4: the backend factory is called at most once; after any warm_up call it
\* has been called exactly once and the component is Ready; and once Ready, no
\* warm_up, run or attribute assignment changes the backend held or calls the
\* factory again.
C4_BackendBuiltOnce ==
    /\ [](factoryCalls <= 1 /\ (Ready <=> factoryCalls = 1))
    /\ [][/\ last'.op = "warm_up" => (factoryCalls' = 1 /\ embedding_backend' # NoAttr)
          /\ Ready => (embedding_backend' = embedding_backend /\ factoryCalls' = factoryCalls)
         ]_vars

\* C4 witness: warm_up was just called on a component whose attributes no longer
\* match the backend it holds, and the factory was still called once
C4_Witness ==
    /\ last.op = "warm_up"
    /\ factoryCalls = 1
    /\ embedding_backend # build_backend(self)

\* C9: a run on a Ready component with a list of Documents makes exactly one
\* embed call, with one text per document, the i-th being the text composed from
\* documents[i] and the current attributes, and with the current batch_size,
\* progress_bar and normalize_embeddings; any other run makes no embed call.
C9_OneEmbedCallWithCurrentAttributes ==
    LastIsRun
    => IF Ready /\ AllDocuments(last.documents)
       THEN /\ Len(last.embeds) = 1
            /\ Len(last.embeds[1].args.texts) = Len(LastItems)
            /\ \A i \in 1..Len(LastItems) :
                  last.embeds[1].args.texts[i] = text_to_embed(docs[LastItems[i]], self)
            /\ last.embeds[1].args.batch_size = self.batch_size
            /\ last.embeds[1].args.show_progress_bar = self.progress_bar
            /\ last.embeds[1].args.normalize_embeddings = self.normalize_embeddings
       ELSE last.embeds = <<>>

\* C9 witness: a run after batch_size was assigned passed the new value to embed
C9_Witness ==
    /\ LastIsRun /\ Ready
    /\ LastItems = <<2, 1>>
    /\ self.batch_size # DefaultBatchSize
    /\ Len(last.embeds) = 1
    /\ last.embeds[1].args.batch_size = self.batch_size

-----------------------------------------------------------------------------
(* Properties of the text sent to the backend *)

\* the values Python treats as false
FalsyValues == {PyInt(0), PyStrV(<<>>), PyList(<<>>), None, PyBool(FALSE)}

\* M: str(meta[k]) for each k of the field list, in order, with k in meta and
\* meta[k] not falsy
RECURSIVE ExpectedMetaStrings(_, _)
ExpectedMetaStrings(meta, fields) ==
    IF fields = <<>> THEN <<>>
    ELSE (IF Head(fields) \in DOMAIN meta /\ meta[Head(fields)] \notin FalsyValues
          THEN <<PyStr(meta[Head(fields)])>> ELSE <<>>)
         \o ExpectedMetaStrings(meta, Tail(fields))

\* every part but the last followed by the separator, then the last part
RECURSIVE Separated(_, _)
Separated(parts, sep) ==
    IF Len(parts) = 1 THEN parts[1]
    ELSE Separated(SubSeq(parts, 1, Len(parts) - 1), sep) \o sep \o parts[Len(parts)]

ExpectedText(doc, me) ==
    LET content == IF doc.content \in {None, PyStrV(<<>>)} THEN <<>> ELSE doc.content.s
    IN  me.prefix
        \o Separated(ExpectedMetaStrings(doc.meta, me.meta_fields_to_embed.s) \o <<content>>,
                     me.embedding_separator)
        \o me.suffix

\* C6: every text sent to the backend is prefix + join(separator, M ++ [content
\* or ""]) + suffix, M being str(meta[k]) for each k of meta_fields_to_embed, in
\* list order, that is present in the document's meta with a value that is not
\* falsy (0, "", [], None, False); the separator stands between every two parts,
\* also before an empty content.
C6_ComposedText ==
    (LastIsRun /\ last.embeds # <<>>)
    => \A i \in 1..Len(LastItems) :
          last.embeds[1].args.texts[i] = ExpectedText(docs[LastItems[i]], self)

\* C6 witness: "en", the falsy rating 0 and an absent content gave "Q:" "en" "|" "" "/Q"
C6_Witness ==
    /\ LastIsRun /\ last.embeds # <<>>
    /\ LastItems[1] = 1
    /\ docs[1].content = None
    /\ docs[1].meta = [lang |-> PyStrV(<<"e", "n">>), rating |-> PyInt(0)]
    /\ self.meta_fields_to_embed = PyList(<<"rating", "lang">>)
    /\ last.embeds[1].args.texts[1] = <<"Q", ":", "e", "n", "|", "/", "Q">>

-----------------------------------------------------------------------------
(* Properties of serialization *)

-----------------------------------------------------------------------------
(* Properties of concurrent warm_up *)

AllDone == \A t \in Threads : pc[t] = "done"

\* C8: when every thread's warm_up has returned the component is Ready and the
\* factory was called at least once and at most once per thread; it was called
\* exactly once when the calls were serialized by the callers' lock.  Without
\* the lock two threads can both pass the check before either stores, the
\* factory is called twice and the later store replaces the earlier backend.
C8_WarmUpRace ==
    /\ factoryCalls <= NThreads
    /\ serialized => factoryCalls <= 1
    /\ AllDone => /\ embedding_backend # NoAttr
                  /\ factoryCalls >= 1
                  /\ serialized => factoryCalls = 1

\* C8 witness: unserialized, every call returned, the factory was called twice
\* and a backend one thread stored was replaced by the backend another built
C8_Witness ==
    /\ ~serialized
    /\ AllDone
    /\ factoryCalls = 2
    /\ \E t \in Threads : local[t] # NoAttr /\ local[t] # embedding_backend

====
